---- MODULE Spec2Model ----
(***************************************************************************)
(* A model of the string-keyed hash map of src/map.c: separate chaining,   *)
(* capacity doubling with a full rehash, and the first/next iteration      *)
(* protocol.  Cells live in a heap of addresses and are linked through     *)
(* their next fields, as in the C code; the bucket array holds the chain   *)
(* heads.  The 32-bit hash is computed in two 16-bit limbs.                *)
(***************************************************************************)
EXTENDS Integers, Sequences, FiniteSets, TLC

\* ---------------------------------------------------------------- bounds
\* Number of cell addresses the heap offers; a map_set of a new key is only
\* issued while one of them is free.
MaxCells == 3
\* Number of map_set calls of a new key issued in one run.
MaxInserts == 3
\* The number of strings the shell can hold allocated at once.
MaxStrings == 4

\* ------------------------------------------------------ program constants
\* Width of `unsigned int`, as two limbs of LimbBits bits each.
LimbBits == 16
Limb == 2 ^ LimbBits
\* sizeof (struct cell) and the offset of its flexible array member `key`
\* (two pointers, LP64).
SizeofStructCell == 16
OffsetofKey == 16

NULL == 0

\* #define MAX_LINE 80
MAX_LINE == 80
\* EOF of <stdio.h>, the newline character, and the width of a char.
EOF == 0 - 1
Newline == 10
CharBits == 8

\* The address malloc returns for the struct map.
HeaderPtr == 1

\* Keys are C strings: sequences of non-zero bytes.  "a", "key" and "size"
\* hash to bucket 0 at capacities 1, 2 and 4; "map" hashes to buckets 0, 1
\* and 3.
Keys == {<<97>>, <<107, 101, 121>>, <<115, 105, 122, 101>>, <<109, 97, 112>>}
\* Two value handles (the client's pointers), distinct from NULL.
Values == {1, 2}
Addrs == 1 .. MaxCells

\* A pointer to the key string of a cell: the cell's address plus an offset.
KeyPtr(c) == [base |-> c, off |-> OffsetofKey]
NULLKEY == [base |-> NULL, off |-> 0]

VARIABLES
  elems,      \* m->elems: bucket index -> address of the chain's head, or NULL
  capacity,   \* m->capacity
  size,       \* m->size
  heap,       \* allocated cells: address -> [next, value, key]
  elemsPtr,   \* the address of the block m->elems points to
  arrays,     \* the addresses of the allocated bucket array blocks
  header,     \* whether the block of the struct map is allocated
  frees,      \* the pointers map_destroy passed to free, in order
  shell,      \* cli.c: [m, strs, cmd, key, out, calls]
              \*   m      the static map pointer of run_cmd
              \*   strs   the strings strdup allocated that are not freed:
              \*          address -> "value" when a set command stored it in
              \*          the map, "token" otherwise
              \*   cmd, key, out  the last command, its key, what it printed
              \*   calls  the map operations the last command called
  reader,     \* read_cmd: [pc, i, ch, input, eof, signed]
              \*   pc     where read_cmd, or main between two calls of it, is
              \*   i, ch  the loop index and the last character read
              \*   input  the bytes of stdin not yet read
              \*   eof    the end-of-file indicator of stdin
              \*   signed whether char is a signed type in this build
  status,     \* "running"; "aborted" once a failed assertion, or "exited" once
              \* exit(1) in a build without assertions, has ended the process;
              \* "destroyed" after map_destroy; after a dereference of NULL,
              \* "segv" when the access faulted and "ub" when it did not
  lastOp,     \* the last call made and what it returned
  f,          \* history: the value most recently set for each key still present
  everSet,    \* history: the keys ever passed to map_set
  nInserted,  \* history: number of map_set calls that created an entry
  insertedAt, \* history: for each key still present, the value of nInserted
              \* when the map_set call that created its entry returned
  nRemoved    \* history: number of map_remove calls that returned

vars == <<elems, capacity, size, heap, elemsPtr, arrays, header, frees, shell,
          reader, status, lastOp, f, everSet, nInserted, insertedAt, nRemoved>>

\* The map and the cells it points to, as one value.
Cur == [elems |-> elems, capacity |-> capacity, size |-> size, heap |-> heap,
        elemsPtr |-> elemsPtr, arrays |-> arrays]

\* ------------------------------------------------------------------ hash
RECURSIVE xor(_, _)
xor(a, b) ==
  IF a = 0 THEN b
  ELSE IF b = 0 THEN a
  ELSE (((a % 2) + (b % 2)) % 2) + 2 * xor(a \div 2, b \div 2)

\* hash *= 31 on a 32-bit unsigned held as [hi, lo].
umul31(h) ==
  LET lo == h.lo * 31
      hi == h.hi * 31 + (lo \div Limb)
  IN [hi |-> hi % Limb, lo |-> lo % Limb]

\* hash ^= (unsigned char) c
uxor(h, c) == [hi |-> h.hi, lo |-> xor(h.lo, c)]

\* h % n for a 32-bit unsigned h and 0 < n.
umod(h, n) == ((h.hi % n) * (Limb % n) + (h.lo % n)) % n

RECURSIVE hash_loop(_, _)
hash_loop(h, key) ==
  IF key = <<>> THEN h
  ELSE hash_loop(uxor(umul31(h), Head(key)), Tail(key))

\* The hash of every key the client uses, computed once.
hash_of == [key \in Keys |-> hash_loop([hi |-> Limb - 1, lo |-> Limb - 1], key)]

hash(key) == hash_of[key]

\* ------------------------------------------------------------ map_create
\* sizeof a pointer and sizeof (int) on an LP64 build.
SizeofPtr == 8
SizeofInt == 4

\* struct map { struct cell **elems; int capacity; int size; }: where each
\* field lies in the header.
MapFields ==
  [elems |-> [off |-> 0, len |-> SizeofPtr],
   capacity |-> [off |-> SizeofPtr, len |-> SizeofInt],
   size |-> [off |-> SizeofPtr + SizeofInt, len |-> SizeofInt]]

SizeofStructMap == SizeofPtr + SizeofInt + SizeofInt

\* malloc(sizeof (map)): map is the pointer type struct map *, so the header
\* block has the size of a pointer.
HeaderBytes == SizeofPtr

\* The fields of the header an operation reads or writes.
Touched(op) ==
  CASE op = "create" -> {"elems", "capacity", "size"}
    [] op = "size" -> {"size"}
    [] op \in {"contains", "get", "walk", "destroy"} -> {"elems", "capacity"}
    [] op \in {"set", "remove"} -> {"elems", "capacity", "size"}
    [] OTHER -> {}

\* The address calloc returns for a bucket array: the lowest one not in use.
calloc(used) ==
  CHOOSE a \in 1 .. Cardinality(used) + 1 :
    a \notin used /\ \A x \in 1 .. Cardinality(used) + 1 : x \notin used => a <= x

map_create ==
  [elems |-> [i \in 0 .. 0 |-> NULL], capacity |-> 1, size |-> 0,
   heap |-> [a \in {} |-> NULL],
   elemsPtr |-> calloc({}), arrays |-> {calloc({})}]

\* ----------------------------------------------------------------- lookup
\* The linear search of one chain shared by map_contains, map_set and map_get:
\* the first cell from curr on whose key equals key, or NULL.
RECURSIVE find_cell(_, _, _)
find_cell(h, curr, key) ==
  IF curr = NULL THEN NULL
  ELSE IF h[curr].key = key THEN curr
  ELSE find_cell(h, h[curr].next, key)

map_size(st) == st.size

map_contains(st, key) ==
  LET b == umod(hash(key), st.capacity)
  IN find_cell(st.heap, st.elems[b], key) # NULL

\* A slip: a missing key yields NULL instead of ending the process.
map_get_returns_null(st, key) ==
  LET b == umod(hash(key), st.capacity)
      c == find_cell(st.heap, st.elems[b], key)
  IN IF c # NULL THEN [ok |-> TRUE, value |-> st.heap[c].value]
     ELSE [ok |-> TRUE, value |-> NULL]

\* [ok, value]: ok is FALSE when the assertion fails.
map_get(st, key) ==
  LET b == umod(hash(key), st.capacity)
      c == find_cell(st.heap, st.elems[b], key)
  IN IF c # NULL THEN [ok |-> TRUE, value |-> st.heap[c].value]
     ELSE [ok |-> FALSE, value |-> NULL]

\* --------------------------------------------------- extend_if_necessary
\* The inner while loop: push every cell of the old chain starting at curr
\* onto the head of its bucket in the new array.
RECURSIVE move_chain(_, _)

\* A slip: the successor is read after the cell has been relinked, so the rest
\* of the old chain is left behind.
move_chain_drops_tail(st, curr) ==
  IF curr = NULL THEN st
  ELSE LET b == umod(hash(st.heap[curr].key), st.capacity)
           moved == [st EXCEPT !.heap[curr].next = st.elems[b],
                               !.elems[b] = curr]
       IN move_chain(moved, moved.heap[curr].next)

\* A slip: the new bucket index is computed with the capacity saved before the
\* doubling.
move_chain_old_index(st, curr) ==
  IF curr = NULL THEN st
  ELSE LET next == st.heap[curr].next
           b == umod(hash(st.heap[curr].key), st.capacity \div 2)
       IN move_chain([st EXCEPT !.heap[curr].next = st.elems[b],
                                !.elems[b] = curr],
                     next)

\* A slip: the rest of the old chain is moved before the cell itself, so the
\* cells of one old chain keep their order.
move_chain_keeps_order(st, curr) ==
  IF curr = NULL THEN st
  ELSE LET next == st.heap[curr].next
           rest == move_chain(st, next)
           b == umod(hash(st.heap[curr].key), st.capacity)
       IN [rest EXCEPT !.heap[curr].next = rest.elems[b],
                       !.elems[b] = curr]

move_chain(st, curr) ==
  IF curr = NULL THEN st
  ELSE LET next == st.heap[curr].next
           b == umod(hash(st.heap[curr].key), st.capacity)
       IN move_chain([st EXCEPT !.heap[curr].next = st.elems[b],
                                !.elems[b] = curr],
                     next)

\* The outer for loop over the buckets i .. old_capacity - 1 of the old array.
RECURSIVE move_buckets(_, _, _, _)
move_buckets(st, old_elems, old_capacity, i) ==
  IF i >= old_capacity THEN st
  ELSE move_buckets(move_chain(st, old_elems[i]), old_elems, old_capacity, i + 1)

\* The body of the if: the capacity becomes new_capacity, the array a fresh
\* zeroed one, and every cell of the old array is moved over.
rehash(st, new_capacity) ==
  LET old_capacity == st.capacity
      old_elems == st.elems
      old_ptr == st.elemsPtr
      new_ptr == calloc(st.arrays)
      grown == [st EXCEPT !.capacity = new_capacity,
                          !.elems = [i \in 0 .. new_capacity - 1 |-> NULL],
                          !.elemsPtr = new_ptr,
                          !.arrays = st.arrays \cup {new_ptr}]
      moved == move_buckets(grown, old_elems, old_capacity, 0)
  IN [moved EXCEPT !.arrays = moved.arrays \ {old_ptr}]

\* A slip: the capacity grows by two instead of doubling.
extend_plus_two(st) ==
  IF st.size = st.capacity THEN rehash(st, st.capacity + 2) ELSE st

\* A slip: the table grows only once the load already exceeds one.
extend_too_late(st) ==
  IF st.size > st.capacity THEN rehash(st, st.capacity * 2) ELSE st

\* A slip: the table grows one insertion early.
extend_too_early(st) ==
  IF st.size + 1 >= st.capacity THEN rehash(st, st.capacity * 2) ELSE st

extend_if_necessary(st) ==
  IF st.size = st.capacity THEN rehash(st, st.capacity * 2) ELSE st

\* The table at the first m->elems[b] of the rehash loop when calloc has
\* returned NULL: the capacity is doubled already and m->elems is NULL. The
\* loop reaches that access, since size = capacity > 0 leaves a cell to move.
extend_calloc_null(st) ==
  [st EXCEPT !.capacity = st.capacity * 2,
             !.elems = [i \in {} |-> NULL],
             !.elemsPtr = NULL]

\* ---------------------------------------------------------------- map_set
\* new is the address malloc returns for the cell, used when key is absent.
\* A slip: the new cell is linked but size is left as it was.
link_new_keeps_size(st, b, key, value, new) ==
  LET cell == [next |-> st.elems[b], value |-> value, key |-> key]
  IN [st EXCEPT !.heap = [a \in DOMAIN st.heap \cup {new} |->
                            IF a = new THEN cell ELSE st.heap[a]],
                !.elems[b] = new]

\* The insertion of a new cell at the head of bucket b.
link_new(st, b, key, value, new) ==
  LET cell == [next |-> st.elems[b], value |-> value, key |-> key]
  IN [st EXCEPT !.heap = [a \in DOMAIN st.heap \cup {new} |->
                            IF a = new THEN cell ELSE st.heap[a]],
                !.elems[b] = new,
                !.size = st.size + 1]

\* A slip: the bucket index computed before the growth is used after it.
map_set_stale_bucket(st, key, value, new) ==
  LET b == umod(hash(key), st.capacity)
      c == find_cell(st.heap, st.elems[b], key)
  IN IF c # NULL
     THEN [st EXCEPT !.heap[c].value = value]
     ELSE link_new(extend_if_necessary(st), b, key, value, new)

\* A slip: replacing the value of an existing entry also counts it again.
map_set_counts_overwrite(st, key, value, new) ==
  LET b == umod(hash(key), st.capacity)
      c == find_cell(st.heap, st.elems[b], key)
  IN IF c # NULL
     THEN [st EXCEPT !.heap[c].value = value, !.size = st.size + 1]
     ELSE LET ext == extend_if_necessary(st)
          IN link_new(ext, umod(hash(key), ext.capacity), key, value, new)

map_set(st, key, value, new) ==
  LET b == umod(hash(key), st.capacity)
      c == find_cell(st.heap, st.elems[b], key)
  IN IF c # NULL
     THEN [st EXCEPT !.heap[c].value = value]
     ELSE LET ext == extend_if_necessary(st)
          IN link_new(ext, umod(hash(key), ext.capacity), key, value, new)

\* ------------------------------------------------------------- map_remove
\* The double pointer curr is a location holding a cell address: &m->elems[b]
\* is [cell |-> NULL, idx |-> b], &c->next is [cell |-> c, idx |-> 0].
Deref(st, loc) == IF loc.cell = NULL THEN st.elems[loc.idx] ELSE st.heap[loc.cell].next

Store(st, loc, v) ==
  IF loc.cell = NULL THEN [st EXCEPT !.elems[loc.idx] = v]
  ELSE [st EXCEPT !.heap[loc.cell].next = v]

free(h, a) == [x \in DOMAIN h \ {a} |-> h[x]]

\* The location whose content is the cell with this key, or one holding NULL.
RECURSIVE find_link(_, _, _)
find_link(st, curr, key) ==
  IF Deref(st, curr) = NULL THEN curr
  ELSE IF st.heap[Deref(st, curr)].key = key THEN curr
  ELSE find_link(st, [cell |-> Deref(st, curr), idx |-> 0], key)

\* A slip: the entry is unlinked and freed but size is left as it was.
map_remove_keeps_size(st, key) ==
  LET b == umod(hash(key), st.capacity)
      curr == find_link(st, [cell |-> NULL, idx |-> b], key)
      found == Deref(st, curr)
  IN IF found # NULL
     THEN LET bridged == Store(st, curr, st.heap[found].next)
          IN [ok |-> TRUE, value |-> st.heap[found].value,
              st |-> [bridged EXCEPT !.heap = free(bridged.heap, found)]]
     ELSE [ok |-> FALSE, value |-> NULL, st |-> st]

\* A slip: size is decremented and the value returned, but the entry stays
\* linked in its chain.
map_remove_leaves_linked(st, key) ==
  LET b == umod(hash(key), st.capacity)
      curr == find_link(st, [cell |-> NULL, idx |-> b], key)
      found == Deref(st, curr)
  IN IF found # NULL
     THEN [ok |-> TRUE, value |-> st.heap[found].value,
           st |-> [st EXCEPT !.size = st.size - 1]]
     ELSE [ok |-> FALSE, value |-> NULL, st |-> st]

\* A slip: the chain is cut at the removed entry instead of bridged across it.
map_remove_cuts_chain(st, key) ==
  LET b == umod(hash(key), st.capacity)
      curr == find_link(st, [cell |-> NULL, idx |-> b], key)
      found == Deref(st, curr)
  IN IF found # NULL
     THEN LET cut == Store(st, curr, NULL)
          IN [ok |-> TRUE, value |-> st.heap[found].value,
              st |-> [cut EXCEPT !.heap = free(cut.heap, found),
                                 !.size = cut.size - 1]]
     ELSE [ok |-> FALSE, value |-> NULL, st |-> st]

\* [ok, value, st]: ok is FALSE when the assertion fails.
map_remove(st, key) ==
  LET b == umod(hash(key), st.capacity)
      curr == find_link(st, [cell |-> NULL, idx |-> b], key)
      found == Deref(st, curr)
  IN IF found # NULL
     THEN LET bridged == Store(st, curr, st.heap[found].next)
              value == st.heap[found].value
          IN [ok |-> TRUE, value |-> value,
              st |-> [bridged EXCEPT !.heap = free(bridged.heap, found),
                                     !.size = bridged.size - 1]]
     ELSE [ok |-> FALSE, value |-> NULL, st |-> st]

\* ------------------------------------------------------------ map_destroy
\* What map_destroy has done so far, d: the cells still allocated, the pointers
\* passed to free, and bad, set when a cell that is no longer allocated is read
\* or freed.
Freed(kind, ptr) == [kind |-> kind, ptr |-> ptr]

\* The while loop: free every cell of the chain starting at curr, reading the
\* successor before the cell is freed.
RECURSIVE destroy_chain(_, _)
destroy_chain(d, curr) ==
  IF curr = NULL THEN d
  ELSE IF curr \notin DOMAIN d.heap THEN [d EXCEPT !.bad = TRUE]
  ELSE LET next == d.heap[curr].next
       IN destroy_chain([d EXCEPT !.heap = free(d.heap, curr),
                                  !.frees = Append(d.frees, Freed("cell", curr))],
                        next)

\* The for loop over the buckets i .. capacity - 1.
RECURSIVE destroy_buckets(_, _, _)
destroy_buckets(st, d, i) ==
  IF i >= st.capacity THEN d
  ELSE destroy_buckets(st, destroy_chain(d, st.elems[i]), i + 1)

\* A slip: only the first cell of each chain is freed.
map_destroy_heads_only(st) ==
  LET heads == {st.elems[i] : i \in 0 .. st.capacity - 1} \ {NULL}
      order == CHOOSE q \in [1 .. Cardinality(heads) -> heads] :
                 \A i, j \in DOMAIN q : i < j => q[i] < q[j]
      d == [heap |-> [a \in DOMAIN st.heap \ heads |-> st.heap[a]],
            frees |-> [i \in DOMAIN order |-> Freed("cell", order[i])],
            bad |-> FALSE]
  IN [heap |-> d.heap,
      arrays |-> st.arrays \ {st.elemsPtr},
      header |-> FALSE,
      frees |-> d.frees \o <<Freed("array", st.elemsPtr), Freed("header", NULL)>>,
      bad |-> d.bad \/ st.elemsPtr \notin st.arrays]

\* [heap, arrays, header, frees, bad]: the allocations left and the frees made.
map_destroy(st) ==
  LET d == destroy_buckets(st, [heap |-> st.heap, frees |-> <<>>, bad |-> FALSE], 0)
  IN [heap |-> d.heap,
      arrays |-> st.arrays \ {st.elemsPtr},
      header |-> FALSE,
      frees |-> d.frees \o <<Freed("array", st.elemsPtr), Freed("header", NULL)>>,
      bad |-> d.bad \/ st.elemsPtr \notin st.arrays]

\* ----------------------------------------------------- map_first, map_next
\* The key of the head of the first non-empty bucket from index i on.
RECURSIVE first_from(_, _)
first_from(st, i) ==
  IF i >= st.capacity THEN NULLKEY
  ELSE IF st.elems[i] # NULL THEN KeyPtr(st.elems[i])
  ELSE first_from(st, i + 1)

map_first(st) == first_from(st, 0)

\* The string a key pointer points to.
StrAt(st, key) == IF key.off = OffsetofKey THEN st.heap[key.base].key ELSE <<>>

\* A slip: the scan for the next non-empty bucket starts one bucket too far.
map_next_skips_bucket(st, key) ==
  LET back == key.off - SizeofStructCell
      curr == IF back = 0 THEN key.base ELSE NULL
  IN IF st.heap[curr].next # NULL
     THEN KeyPtr(st.heap[curr].next)
     ELSE first_from(st, umod(hash(StrAt(st, key)), st.capacity) + 2)

map_next(st, key) ==
  LET back == key.off - SizeofStructCell
      curr == IF back = 0 THEN key.base ELSE NULL
  IN IF st.heap[curr].next # NULL
     THEN KeyPtr(st.heap[curr].next)
     ELSE first_from(st, umod(hash(StrAt(st, key)), st.capacity) + 1)

\* for (key = map_first(m); key != NULL; key = map_next(m, key)): the strings
\* of the keys visited, in order.
RECURSIVE walk_from(_, _, _)
walk_from(st, key, acc) ==
  IF key = NULLKEY THEN acc
  ELSE walk_from(st, map_next(st, key), Append(acc, StrAt(st, key)))

map_walk(st) == walk_from(st, map_first(st), <<>>)

\* ----------------------------------------------------------------- malloc
\* The address malloc returns for a new cell: the lowest free one (empty when
\* none is free).
malloc(h) == {a \in Addrs \ DOMAIN h : \A x \in Addrs \ DOMAIN h : a <= x}

\* The reader before main has started.
ReaderIdle == [pc |-> "idle", i |-> 0, ch |-> 0, input |-> <<>>, eof |-> FALSE,
               signed |-> FALSE]

\* ---------------------------------------------------------------- actions
\* The record of a call: its arguments, its result (ok is FALSE when it ended
\* the process, ret is the value returned, keys the strings a walk visited) and
\* what the client could observe just before it: whether the key was present,
\* the value last set for it, the size, the capacity and the number of cells.
Op(op, key, value, ok, ret, keys) ==
  [op |-> op, key |-> key, value |-> value, ok |-> ok, ret |-> ret, keys |-> keys,
   found |-> IF key \in Keys THEN map_contains(Cur, key) ELSE FALSE,
   set0 |-> IF key \in DOMAIN f THEN f[key] ELSE NULL,
   size0 |-> size, cap0 |-> capacity, cells0 |-> Cardinality(DOMAIN heap)]

Install(st) ==
  /\ elems' = st.elems
  /\ capacity' = st.capacity
  /\ size' = st.size
  /\ heap' = st.heap
  /\ elemsPtr' = st.elemsPtr
  /\ arrays' = st.arrays

Init ==
  /\ elems = map_create.elems
  /\ capacity = map_create.capacity
  /\ size = map_create.size
  /\ heap = map_create.heap
  /\ elemsPtr = map_create.elemsPtr
  /\ arrays = map_create.arrays
  /\ header = TRUE
  /\ frees = <<>>
  /\ reader = ReaderIdle
  /\ shell = [m |-> HeaderPtr, strs |-> <<>>, cmd |-> "start", key |-> <<>>,
              out |-> [msg |-> "-", val |-> NULL], calls |-> <<>>]
  /\ status = "running"
  /\ lastOp = [op |-> "create", key |-> <<>>, value |-> NULL, ok |-> TRUE,
               ret |-> NULL, keys |-> <<>>, found |-> FALSE, set0 |-> NULL,
               size0 |-> 0, cap0 |-> 0, cells0 |-> 0]
  /\ f = [k \in {} |-> NULL]
  /\ everSet = {}
  /\ nInserted = 0
  /\ insertedAt = [k \in {} |-> 0]
  /\ nRemoved = 0

MapSize ==
  /\ status = "running"
  /\ lastOp' = Op("size", <<>>, NULL, TRUE, map_size(Cur), <<>>)
  /\ UNCHANGED <<elems, capacity, size, heap, elemsPtr, arrays, header, frees, shell,
                 status, f, everSet, nInserted, insertedAt, nRemoved>>
  /\ UNCHANGED reader

MapContains(key) ==
  /\ status = "running"
  /\ lastOp' = Op("contains", key, NULL, TRUE, IF map_contains(Cur, key) THEN 1 ELSE 0, <<>>)
  /\ UNCHANGED <<elems, capacity, size, heap, elemsPtr, arrays, header, frees, shell,
                 status, f, everSet, nInserted, insertedAt, nRemoved>>
  /\ UNCHANGED reader

MapSetExisting(key, value) ==
  /\ status = "running"
  /\ map_contains(Cur, key)
  /\ Install(map_set(Cur, key, value, NULL))
  /\ lastOp' = Op("set", key, value, TRUE, NULL, <<>>)
  /\ f' = [f EXCEPT ![key] = value]
  /\ everSet' = everSet \cup {key}
  /\ UNCHANGED <<header, frees, shell, status, nInserted, insertedAt, nRemoved>>
  /\ UNCHANGED reader

MapSetNew(key, value) ==
  /\ status = "running"
  /\ ~map_contains(Cur, key)
  /\ nInserted < MaxInserts
  /\ \E new \in malloc(heap) : Install(map_set(Cur, key, value, new))
  /\ lastOp' = Op("set", key, value, TRUE, NULL, <<>>)
  /\ f' = [k \in DOMAIN f \cup {key} |-> IF k = key THEN value ELSE f[k]]
  /\ everSet' = everSet \cup {key}
  /\ nInserted' = nInserted + 1
  /\ insertedAt' = [k \in DOMAIN f \cup {key} |->
                      IF k = key THEN nInserted + 1 ELSE insertedAt[k]]
  /\ UNCHANGED <<header, frees, shell, status, nRemoved>>
  /\ UNCHANGED reader

MapGet(key) ==
  /\ status = "running"
  /\ LET r == map_get(Cur, key)
     IN /\ lastOp' = Op("get", key, NULL, r.ok, r.value, <<>>)
        /\ status' \in (IF r.ok THEN {"running"} ELSE {"aborted", "exited"})
  /\ UNCHANGED <<elems, capacity, size, heap, elemsPtr, arrays, header, frees, shell,
                 f, everSet, nInserted, insertedAt, nRemoved>>
  /\ UNCHANGED reader

MapRemove(key) ==
  /\ status = "running"
  /\ LET r == map_remove(Cur, key)
     IN /\ Install(r.st)
        /\ lastOp' = Op("remove", key, NULL, r.ok, r.value, <<>>)
        /\ status' \in (IF r.ok THEN {"running"} ELSE {"aborted", "exited"})
        /\ nRemoved' = IF r.ok THEN nRemoved + 1 ELSE nRemoved
  /\ f' = [k \in DOMAIN f \ {key} |-> f[k]]
  /\ insertedAt' = [k \in DOMAIN f \ {key} |-> insertedAt[k]]
  /\ UNCHANGED <<header, frees, shell, everSet, nInserted>>
  /\ UNCHANGED reader

MapWalk ==
  /\ status = "running"
  /\ lastOp' = Op("walk", <<>>, NULL, TRUE, NULL, map_walk(Cur))
  /\ UNCHANGED <<elems, capacity, size, heap, elemsPtr, arrays, header, frees, shell,
                 status, f, everSet, nInserted, insertedAt, nRemoved>>
  /\ UNCHANGED reader

Next ==
  \/ MapSize
  \/ MapWalk
  \/ \E key \in Keys : MapContains(key)
  \/ \E key \in Keys : MapGet(key)
  \/ \E key \in Keys : MapRemove(key)
  \/ \E key \in Keys, value \in Values : MapSetExisting(key, value)
  \/ \E key \in Keys, value \in Values : MapSetNew(key, value)

Spec == Init /\ [][Next]_vars

\* The client may also end the life of the map: nothing is called after
\* map_destroy.
MapDestroy ==
  /\ status = "running"
  /\ LET d == map_destroy(Cur)
     IN /\ heap' = d.heap
        /\ arrays' = d.arrays
        /\ header' = d.header
        /\ frees' = d.frees
        /\ status' = IF d.bad THEN "ub" ELSE "destroyed"
  /\ lastOp' = Op("destroy", <<>>, NULL, TRUE, NULL, <<>>)
  /\ UNCHANGED <<elems, capacity, size, elemsPtr, shell, f, everSet, nInserted, insertedAt, nRemoved>>
  /\ UNCHANGED reader

NextDestroy == Next \/ MapDestroy

\* map_set of an absent key when the calloc of the growth returns NULL: the
\* result is not tested and the rehash loop dereferences it.
MapSetCallocFails(key, value) ==
  /\ status = "running"
  /\ ~map_contains(Cur, key)
  /\ size = capacity
  /\ Install(extend_calloc_null(Cur))
  /\ lastOp' = Op("set", key, value, FALSE, NULL, <<>>)
  /\ status' \in {"segv", "ub"}
  /\ UNCHANGED <<header, frees, shell, f, everSet, nInserted, insertedAt, nRemoved>>
  /\ UNCHANGED reader

\* map_set of an absent key when the malloc of the cell returns NULL, after a
\* growth that succeeded if one was due: the result is not tested and
\* new->next is written through it.
MapSetMallocFails(key, value) ==
  /\ status = "running"
  /\ ~map_contains(Cur, key)
  /\ Install(extend_if_necessary(Cur))
  /\ lastOp' = Op("set", key, value, FALSE, NULL, <<>>)
  /\ status' \in {"segv", "ub"}
  /\ UNCHANGED <<header, frees, shell, f, everSet, nInserted, insertedAt, nRemoved>>
  /\ UNCHANGED reader

NextAlloc ==
  \/ Next
  \/ \E key \in Keys, value \in Values : MapSetCallocFails(key, value)
  \/ \E key \in Keys, value \in Values : MapSetMallocFails(key, value)

SpecAlloc == Init /\ [][NextAlloc]_vars

SpecDestroy == Init /\ [][NextDestroy]_vars

\* ------------------------------------------------------------------ cli.c
StrAddrs == 1 .. MaxStrings

\* The keys typed at the prompt: "a", "key" and "map".
ShellKeys == {<<97>>, <<107, 101, 121>>, <<109, 97, 112>>}

\* The address strdup returns for a copy of a token: the lowest free one (empty
\* when none is free).
strdup(strs) ==
  {a \in StrAddrs \ DOMAIN strs : \A x \in StrAddrs \ DOMAIN strs : a <= x}

\* strs with the block a added, allocated for role.
Keep(strs, a, role) == [x \in DOMAIN strs \cup {a} |-> IF x = a THEN role ELSE strs[x]]

\* What a command printed: the message and the number or strings within it.
Out(msg, val) == [msg |-> msg, val |-> val]

UseInit == Out("error; use init first to initialize a new empty map", NULL)

\* A call of a map operation, with the m passed and whether key was present.
Call(op, key) ==
  [op |-> op, key |-> key, m |-> shell.m,
   present |-> IF shell.m # NULL /\ key \in Keys THEN map_contains(Cur, key) ELSE FALSE]

Said(cmd, key, out, ops, m, strs) ==
  [m |-> m, strs |-> strs, cmd |-> cmd, key |-> key, out |-> out,
   calls |-> [j \in DOMAIN ops |-> Call(ops[j].op, ops[j].key)]]

On(op, key) == [op |-> op, key |-> key]

\* The variables no map exists in before the first init.
NoMap ==
  [elems |-> [i \in {} |-> NULL], capacity |-> 0, size |-> 0,
   heap |-> [a \in {} |-> NULL], elemsPtr |-> NULL, arrays |-> {}]

ShellStart ==
  [m |-> NULL, strs |-> <<>>, cmd |-> "start", key |-> <<>>,
   out |-> Out("Map CLI; use help if you are totally lost.", NULL),
   calls |-> <<>>]

history == <<lastOp, f, everSet, nInserted, insertedAt, nRemoved>>

ensure_exists(m) == m # NULL

\* [heap, arrays, header, frees, bad] after do_cleanup(m).
do_cleanup(st, m) ==
  IF m # NULL THEN map_destroy(st)
  ELSE [heap |-> st.heap, arrays |-> st.arrays, header |-> FALSE,
        frees |-> <<>>, bad |-> FALSE]

\* A slip: map_get is called without asking map_contains first.
run_get_unguarded(st, key) ==
  LET r == map_get(st, key)
  IN [ok |-> r.ok, out |-> Out("m[key] = value", r.value),
      ops |-> <<On("get", key)>>]

\* The body of the get command once the map exists: [ok, out, ops].
run_get(st, key) ==
  IF ~map_contains(st, key)
  THEN [ok |-> TRUE, out |-> Out("error; key not found", NULL),
        ops |-> <<On("contains", key)>>]
  ELSE LET r == map_get(st, key)
       IN [ok |-> r.ok, out |-> Out("m[key] = value", r.value),
           ops |-> <<On("contains", key), On("get", key)>>]

\* The body of the remove command once the map exists: [ok, out, ops, st,
\* freed], freed being the value passed to free, or NULL.
run_remove(st, key) ==
  IF ~map_contains(st, key)
  THEN [ok |-> TRUE, out |-> Out("error; key not found", NULL),
        ops |-> <<On("contains", key)>>, st |-> st, freed |-> NULL]
  ELSE LET r == map_remove(st, key)
       IN [ok |-> r.ok, out |-> Out("# m[key] = value", r.value),
           ops |-> <<On("contains", key), On("remove", key)>>,
           st |-> r.st, freed |-> r.value]

\* The body of the ls command once the map exists: map_get on every key the
\* walk yields.
run_ls(st) ==
  LET keys == map_walk(st)
      gets == [j \in DOMAIN keys |-> map_get(st, keys[j])]
  IN [ok |-> \A j \in DOMAIN gets : gets[j].ok,
      out |-> Out("m = {}", [j \in DOMAIN keys |-> <<keys[j], gets[j].value>>]),
      ops |-> [j \in 1 .. 2 * Len(keys) + 1 |->
                 IF j = 1 THEN On("first", <<>>)
                 ELSE IF j % 2 = 0 THEN On("get", keys[j \div 2])
                 ELSE On("next", keys[j \div 2])]]

ShellInitial ==
  /\ elems = NoMap.elems
  /\ capacity = NoMap.capacity
  /\ size = NoMap.size
  /\ heap = NoMap.heap
  /\ elemsPtr = NoMap.elemsPtr
  /\ arrays = NoMap.arrays
  /\ header = FALSE
  /\ frees = <<>>
  /\ status = "running"
  /\ shell = ShellStart
  /\ lastOp = [op |-> "start", key |-> <<>>, value |-> NULL, ok |-> TRUE,
               ret |-> NULL, keys |-> <<>>, found |-> FALSE, set0 |-> NULL,
               size0 |-> 0, cap0 |-> 0, cells0 |-> 0]
  /\ f = [k \in {} |-> NULL]
  /\ everSet = {}
  /\ nInserted = 0
  /\ insertedAt = [k \in {} |-> 0]
  /\ nRemoved = 0

InitShell == ShellInitial /\ reader = ReaderIdle

mapVars == <<elems, capacity, size, heap, elemsPtr, arrays>>

\* help, an empty line, an unknown command, a command with the wrong number of
\* arguments: a message at most.
CmdOther ==
  /\ status = "running"
  /\ shell' = Said("other", <<>>, Out("-", NULL), <<>>, shell.m, shell.strs)
  /\ UNCHANGED <<mapVars, header, frees, status, history>>
  /\ UNCHANGED reader

\* exit, quit, q
CmdExit ==
  /\ status = "running"
  /\ shell' = Said("exit", <<>>, Out("-", NULL), <<>>, shell.m, shell.strs)
  /\ status' = "exit0"
  /\ UNCHANGED <<mapVars, header, frees, history>>
  /\ UNCHANGED reader

CmdInit ==
  /\ status = "running"
  /\ LET d == do_cleanup(Cur, shell.m)
         p == calloc(d.arrays)
     IN /\ Install([map_create EXCEPT !.heap = d.heap, !.elemsPtr = p,
                                      !.arrays = d.arrays \cup {p}])
        /\ frees' = d.frees
        /\ status' = IF d.bad THEN "ub" ELSE "running"
  /\ header' = TRUE
  /\ shell' = Said("init", <<>>, Out("m = {}", NULL),
                   IF shell.m # NULL THEN <<On("destroy", <<>>)>> ELSE <<>>,
                   HeaderPtr, shell.strs)
  /\ UNCHANGED history
  /\ UNCHANGED reader

CmdSize ==
  /\ status = "running"
  /\ shell' = IF ensure_exists(shell.m)
              THEN Said("size", <<>>, Out("|m| =", map_size(Cur)),
                        <<On("size", <<>>)>>, shell.m, shell.strs)
              ELSE Said("size", <<>>, UseInit, <<>>, shell.m, shell.strs)
  /\ UNCHANGED <<mapVars, header, frees, status, history>>
  /\ UNCHANGED reader

\* ls, dump, print
CmdLs ==
  /\ status = "running"
  /\ IF ensure_exists(shell.m)
     THEN LET r == run_ls(Cur)
          IN /\ shell' = Said("ls", <<>>, r.out, r.ops, shell.m, shell.strs)
             /\ status' \in (IF r.ok THEN {"running"} ELSE {"aborted", "exited"})
     ELSE /\ shell' = Said("ls", <<>>, UseInit, <<>>, shell.m, shell.strs)
          /\ UNCHANGED status
  /\ UNCHANGED <<mapVars, header, frees, history>>
  /\ UNCHANGED reader

\* contains <key>: the copy of the key is freed only when the map exists.
CmdContains(key) ==
  /\ status = "running"
  /\ \E ks \in strdup(shell.strs) :
       shell' = IF ensure_exists(shell.m)
                THEN Said("contains", key,
                          Out(IF map_contains(Cur, key) THEN "true" ELSE "false", NULL),
                          <<On("contains", key)>>, shell.m, shell.strs)
                ELSE Said("contains", key, UseInit, <<>>, shell.m,
                          Keep(shell.strs, ks, "token"))
  /\ UNCHANGED <<mapVars, header, frees, status, history>>
  /\ UNCHANGED reader

\* set <key> <value>: the map keeps the copy of the value; the copy a replaced
\* entry held stays allocated.
CmdSet(key) ==
  /\ status = "running"
  /\ \E ks \in strdup(shell.strs) :
       \E vs \in strdup(Keep(shell.strs, ks, "token")) :
         IF ensure_exists(shell.m)
         THEN /\ \E new \in (IF map_contains(Cur, key) THEN {NULL} ELSE malloc(heap)) :
                   Install(map_set(Cur, key, vs, new))
              /\ shell' = Said("set", key, Out("m[key] = value", vs),
                               <<On("set", key)>>, shell.m,
                               Keep(shell.strs, vs, "value"))
         ELSE /\ shell' = Said("set", key, UseInit, <<>>, shell.m,
                               Keep(Keep(shell.strs, ks, "token"), vs, "token"))
              /\ UNCHANGED mapVars
  /\ UNCHANGED <<header, frees, status, history>>
  /\ UNCHANGED reader

CmdGet(key) ==
  /\ status = "running"
  /\ \E ks \in strdup(shell.strs) :
       IF ensure_exists(shell.m)
       THEN LET r == run_get(Cur, key)
            IN /\ shell' = Said("get", key, r.out, r.ops, shell.m, shell.strs)
               /\ status' \in (IF r.ok THEN {"running"} ELSE {"aborted", "exited"})
       ELSE /\ shell' = Said("get", key, UseInit, <<>>, shell.m,
                             Keep(shell.strs, ks, "token"))
            /\ UNCHANGED status
  /\ UNCHANGED <<mapVars, header, frees, history>>
  /\ UNCHANGED reader

\* remove <key>: the value the map returns is freed.
CmdRemove(key) ==
  /\ status = "running"
  /\ \E ks \in strdup(shell.strs) :
       IF ensure_exists(shell.m)
       THEN LET r == run_remove(Cur, key)
                left == [a \in DOMAIN shell.strs \ {r.freed} |-> shell.strs[a]]
            IN /\ Install(r.st)
               /\ shell' = Said("remove", key, r.out, r.ops, shell.m, left)
               /\ status' \in (IF ~r.ok THEN {"aborted", "exited"}
                               ELSE IF r.freed = NULL \/ r.freed \in DOMAIN shell.strs
                                    THEN {"running"}
                               ELSE {"ub"})
       ELSE /\ shell' = Said("remove", key, UseInit, <<>>, shell.m,
                             Keep(shell.strs, ks, "token"))
            /\ UNCHANGED <<mapVars, status>>
  /\ UNCHANGED <<header, frees, history>>
  /\ UNCHANGED reader

NextShell ==
  \/ CmdOther
  \/ CmdExit
  \/ CmdInit
  \/ CmdSize
  \/ CmdLs
  \/ \E key \in ShellKeys : CmdContains(key)
  \/ \E key \in ShellKeys : CmdSet(key)
  \/ \E key \in ShellKeys : CmdGet(key)
  \/ \E key \in ShellKeys : CmdRemove(key)

SpecShell == InitShell /\ [][NextShell]_vars

\* --------------------------------------------------------------- read_cmd
\* getchar: the next byte of stdin, or EOF, setting the end-of-file indicator,
\* when none is left. [c, input, eof]
getchar(r) ==
  IF r.input = <<>> THEN [c |-> EOF, input |-> <<>>, eof |-> TRUE]
  ELSE [c |-> Head(r.input), input |-> Tail(r.input), eof |-> r.eof]

\* char ch = c: the int getchar returned, converted to a char that is signed
\* or unsigned as the build has it.
to_char(c, signed) ==
  LET u == c % (2 ^ CharBits)
  IN IF signed /\ u >= 2 ^ (CharBits - 1) THEN u - 2 ^ (CharBits - 1) - 2 ^ (CharBits - 1)
     ELSE u

\* A line of n ordinary characters and its newline.
Line(n) == [j \in 1 .. n + 1 |-> IF j <= n THEN 99 ELSE Newline]

\* What stdin holds: nothing, one command line, two, or a line too long.
Inputs == {<<>>, Line(2), Line(1) \o Line(0), Line(MAX_LINE + 1)}

\* if (feof(stdin)) return false; printf("> "); int i = 0
ReadFeof ==
  /\ reader.pc = "feof"
  /\ reader' = IF reader.eof THEN [reader EXCEPT !.pc = "returned false"]
               ELSE [reader EXCEPT !.pc = "for", !.i = 0]
  /\ UNCHANGED <<mapVars, header, frees, shell, status, history>>

\* One turn of the for loop, or its end once i > MAX_LINE.
ReadFor ==
  /\ reader.pc = "for"
  /\ reader' =
       IF reader.i <= MAX_LINE
       THEN LET g == getchar(reader)
                ch == to_char(g.c, reader.signed)
            IN IF ch = Newline \/ ch = 0
               THEN [reader EXCEPT !.pc = "returned true", !.ch = ch,
                                   !.input = g.input, !.eof = g.eof]
               ELSE [reader EXCEPT !.i = reader.i + 1, !.ch = ch,
                                   !.input = g.input, !.eof = g.eof]
       ELSE [reader EXCEPT !.pc = "consume"]
  /\ UNCHANGED <<mapVars, header, frees, shell, status, history>>

\* The consuming loop: ch = getchar()
ReadConsume ==
  /\ reader.pc = "consume"
  /\ LET g == getchar(reader)
     IN reader' = [reader EXCEPT !.pc = "consumed", !.input = g.input, !.eof = g.eof,
                                 !.ch = to_char(g.c, reader.signed)]
  /\ UNCHANGED <<mapVars, header, frees, shell, status, history>>

\* The consuming loop: ch != '\n' && ch != '\0', and the error once it is false.
ReadConsumed ==
  /\ reader.pc = "consumed"
  /\ reader' = IF reader.ch # Newline /\ reader.ch # 0
               THEN [reader EXCEPT !.pc = "consume"]
               ELSE [reader EXCEPT !.pc = "feof"]
  /\ UNCHANGED <<mapVars, header, frees, shell, status, history>>

\* main: read_cmd has returned true; run_cmd, which reads nothing from stdin,
\* runs the line, and read_cmd is called again.
MainLoop ==
  /\ reader.pc = "returned true"
  /\ reader' = [reader EXCEPT !.pc = "feof"]
  /\ UNCHANGED <<mapVars, header, frees, shell, status, history>>

InitRead ==
  /\ ShellInitial
  /\ \E input \in Inputs, signed \in BOOLEAN :
       reader = [pc |-> "feof", i |-> 0, ch |-> 0, input |-> input, eof |-> FALSE,
                 signed |-> signed]

NextRead ==
  \/ ReadFeof
  \/ ReadFor
  \/ ReadConsume
  \/ ReadConsumed
  \/ MainLoop

\* The process is the only thread and keeps running: a step that can be taken
\* is taken.
SpecRead == InitRead /\ [][NextRead]_vars /\ WF_vars(NextRead)

\* =================================================================== claims
\* What the chains hold, read off the heap independently of the operations.
RECURSIVE ChainCells(_, _)
ChainCells(h, c) == IF c = NULL THEN <<>> ELSE <<c>> \o ChainCells(h, h[c].next)

\* The cells of bucket i, head first.
BucketCells(i) == ChainCells(heap, elems[i])

RECURSIVE CellsFrom(_)
CellsFrom(i) == IF i >= capacity THEN <<>> ELSE BucketCells(i) \o CellsFrom(i + 1)

\* Every linked cell, bucket 0 upward, each chain head first.
LinkedCells == CellsFrom(0)

KeysOf(cells) == [j \in 1 .. Len(cells) |-> heap[cells[j]].key]

Got(v) == [ok |-> TRUE, value |-> v]

\* C1 (round trip): right after map_set(t, k, v) has returned, whether k was
\* new or present and whether or not the call grew the table,
\* map_contains(t, k) is true and map_get(t, k) returns v.
Thm_C1_RoundTrip ==
  lastOp.op = "set" =>
    /\ map_contains(Cur, lastOp.key)
    /\ map_get(Cur, lastOp.key) = Got(lastOp.value)

\* A map_set of a new key that grew a table of at least two entries.
Wit_C1_SetNewWithGrowth ==
  /\ lastOp.op = "set"
  /\ ~lastOp.found
  /\ lastOp.size0 >= 2
  /\ capacity # lastOp.cap0

\* C2 (overwrite): a map_set on a key that is already present (as it is after
\* a first map_set of that key) leaves map_size unchanged, makes map_get return
\* the new value, and creates no entry: the same cells are allocated and
\* linked as before, and the capacity is unchanged.
Thm_C2_Overwrite ==
  (lastOp.op = "set" /\ lastOp.found) =>
    /\ map_size(Cur) = lastOp.size0
    /\ map_get(Cur, lastOp.key) = Got(lastOp.value)
    /\ Cardinality(DOMAIN heap) = lastOp.cells0
    /\ Len(LinkedCells) = lastOp.cells0
    /\ capacity = lastOp.cap0

\* A map_set that replaced a different value, in a table of two entries or more.
Wit_C2_ValueReplaced ==
  /\ lastOp.op = "set"
  /\ lastOp.found
  /\ lastOp.set0 # lastOp.value
  /\ size >= 2

\* C3 (removal): map_remove(t, k) of a present key k returns the value most
\* recently set for k; afterwards map_contains(t, k) is false and map_size is
\* one less than before.
Thm_C3_Removal ==
  (lastOp.op = "remove" /\ lastOp.found) =>
    /\ lastOp.ok
    /\ lastOp.ret = lastOp.set0
    /\ ~map_contains(Cur, lastOp.key)
    /\ map_size(Cur) = lastOp.size0 - 1

\* A map_remove that took a key out of a table of three entries.
Wit_C3_Removed ==
  /\ lastOp.op = "remove"
  /\ lastOp.ok
  /\ lastOp.size0 = 3
  /\ size = 2

\* The non-empty buckets.
NonEmpty == {i \in 0 .. capacity - 1 : elems[i] # NULL}

\* C4 (iteration): on a table that is not mutated during the walk, map_first
\* followed by map_next until NULL terminates and visits every present key
\* exactly once, bucket 0 upward and each chain from head to tail; map_first
\* returns the head of the lowest-indexed non-empty bucket, or NULL when there
\* is none.
Thm_C4_Iteration ==
  /\ lastOp.op = "walk" =>
       /\ lastOp.keys = KeysOf(LinkedCells)
       /\ {lastOp.keys[j] : j \in 1 .. Len(lastOp.keys)} = DOMAIN f
       /\ Len(lastOp.keys) = Cardinality(DOMAIN f)
  /\ map_first(Cur) =
       IF NonEmpty = {} THEN NULLKEY
       ELSE KeyPtr(elems[CHOOSE i \in NonEmpty : \A j \in NonEmpty : i <= j])

\* A walk over three keys: a chain of two in bucket 0, then over the empty
\* buckets 1 and 2 to bucket 3.
Wit_C4_WalkAcrossBuckets ==
  /\ lastOp.op = "walk"
  /\ Len(lastOp.keys) = 3
  /\ capacity = 4
  /\ Len(BucketCells(0)) = 2
  /\ elems[3] # NULL

\* C5 (resize transparency): a step that changes the capacity (a map_set of a
\* new key that grows the table) keeps every key that was present, with the
\* value map_get returned for it before, and the rehash loses and duplicates
\* no entry: the linked cells afterwards are those linked before plus the new
\* one, each once.
Thm_C5_ResizeTransparency ==
  [][capacity' # capacity =>
       /\ \A k \in Keys :
            map_contains(Cur, k) =>
              /\ map_contains(Cur', k)
              /\ map_get(Cur', k) = map_get(Cur, k)
       /\ Len(LinkedCells') = Len(LinkedCells) + 1
       /\ Cardinality({LinkedCells'[j] : j \in 1 .. Len(LinkedCells')})
            = Len(LinkedCells')
       /\ {LinkedCells[j] : j \in 1 .. Len(LinkedCells)}
            \subseteq {LinkedCells'[j] : j \in 1 .. Len(LinkedCells')}
    ]_vars

\* A map_set that grew the table from capacity 2 to 4 and rehashed a chain of
\* two entries.
Wit_C5_GrownWithChain ==
  /\ lastOp.op = "set"
  /\ lastOp.cap0 = 2
  /\ capacity = 4
  /\ \E i \in 0 .. capacity - 1 : Len(BucketCells(i)) >= 2

\* C6, as stated: map_size equals the number of distinct keys ever set minus
\* the number of successful map_remove calls.
Cex_C6_SizeDistinctKeysEverSet ==
  map_size(Cur) = Cardinality(everSet) - nRemoved

\* C6, amended: map_size equals the number of map_set calls made on a key that
\* was absent at the time of the call minus the number of successful
\* map_remove calls, which is the number of keys currently present.
Thm_C6_SizeInsertsMinusRemoves ==
  /\ map_size(Cur) = nInserted - nRemoved
  /\ map_size(Cur) = Cardinality(DOMAIN f)

\* A key has been set, removed and set again.
Wit_C6_KeySetAgainAfterRemove ==
  /\ nRemoved >= 1
  /\ nInserted > Cardinality(everSet)
  /\ size >= 1

\* C7 (placement): after every completed operation each present key has
\* exactly one entry across all chains, no absent key has any, and every entry
\* is in the bucket with index hash(key) mod the current capacity.
Thm_C7_Placement ==
  /\ \A i \in 0 .. capacity - 1 :
       \A j \in 1 .. Len(BucketCells(i)) :
         umod(hash(heap[BucketCells(i)[j]].key), capacity) = i
  /\ \A k \in Keys :
       Cardinality({j \in 1 .. Len(LinkedCells) : heap[LinkedCells[j]].key = k})
         = IF k \in DOMAIN f THEN 1 ELSE 0

\* A map_set that grew the table and linked the new entry at the head of a
\* bucket that only exists at the doubled capacity, next to rehashed entries.
Wit_C7_NewEntryInUpperBucket ==
  /\ lastOp.op = "set"
  /\ ~lastOp.found
  /\ lastOp.cap0 = 2
  /\ capacity = 4
  /\ umod(hash(lastOp.key), capacity) >= lastOp.cap0
  /\ heap[elems[umod(hash(lastOp.key), capacity)]].key = lastOp.key

RECURSIVE IsPowerOfTwo(_)
IsPowerOfTwo(n) == n = 1 \/ (n > 1 /\ n % 2 = 0 /\ IsPowerOfTwo(n \div 2))

\* C8 (capacity): the capacity is always a positive power of two; it is 1 right
\* after map_create; an operation leaves it as it was or doubles it exactly;
\* and only a map_set of a new key changes it, so map_remove and map_set on an
\* existing key never do.
Thm_C8_Capacity ==
  /\ IsPowerOfTwo(capacity)
  /\ lastOp.op = "create" => capacity = 1
  /\ lastOp.op # "create" => (capacity = lastOp.cap0 \/ capacity = 2 * lastOp.cap0)
  /\ (lastOp.op \notin {"create", "set"} \/ lastOp.found) => capacity = lastOp.cap0

\* The last entry has been removed from a table that had grown to capacity 4.
Wit_C8_EmptiedKeepsCapacity ==
  /\ lastOp.op = "remove"
  /\ lastOp.ok
  /\ size = 0
  /\ capacity = 4

\* C9 (load): after every completed operation 0 <= size <= capacity.
Thm_C9_Load ==
  /\ 0 <= size
  /\ size <= capacity

\* A map_set has filled a table of capacity 2 to a load of exactly one.
Wit_C9_FullLoad ==
  /\ lastOp.op = "set"
  /\ ~lastOp.found
  /\ size = 2
  /\ capacity = 2

\* C10 (resize trigger): a map_set doubles the capacity if and only if the key
\* was not present and size equalled capacity when it was called; otherwise it
\* leaves the capacity unchanged.  So three distinct keys inserted into a fresh
\* table, with no removal, leave a capacity of at least 4 and all three keys
\* retrievable with their values.
Thm_C10_ResizeTrigger ==
  /\ lastOp.op = "set" =>
       IF ~lastOp.found /\ lastOp.size0 = lastOp.cap0
       THEN capacity = 2 * lastOp.cap0
       ELSE capacity = lastOp.cap0
  /\ (nInserted = 3 /\ nRemoved = 0) =>
       /\ capacity >= 4
       /\ Cardinality(DOMAIN f) = 3
       /\ \A k \in DOMAIN f : map_contains(Cur, k) /\ map_get(Cur, k) = Got(f[k])

\* The third insertion into a fresh table has just grown it from 2 to 4.
Wit_C10_ThirdInsertGrows ==
  /\ lastOp.op = "set"
  /\ ~lastOp.found
  /\ nInserted = 3
  /\ nRemoved = 0
  /\ lastOp.cap0 = 2
  /\ capacity = 4

\* C11 (empty table): whenever the table holds no entries, freshly created or
\* after every inserted key has been removed again, at any capacity, map_size
\* is 0, map_contains is false for every key and map_first returns NULL.
Thm_C11_EmptyTable ==
  DOMAIN f = {} =>
    /\ map_size(Cur) = 0
    /\ \A k \in Keys : ~map_contains(Cur, k)
    /\ map_first(Cur) = NULLKEY
    /\ LinkedCells = <<>>

\* Three keys have been inserted and all three removed again; the table is
\* empty at capacity 4.
Wit_C11_EmptiedAfterThree ==
  /\ DOMAIN f = {}
  /\ nInserted = 3
  /\ nRemoved = 3
  /\ capacity = 4
  /\ status = "running"

\* C12 (missing key): map_get or map_remove called with a key that is not
\* present returns no value: the call ends the process, by the failed
\* assertion or by exit(1), and map_remove has changed neither size nor
\* capacity nor any chain before that.
Thm_C12_MissingKeyEndsProcess ==
  [][(lastOp'.op \in {"get", "remove"} /\ ~map_contains(Cur, lastOp'.key)) =>
       /\ ~lastOp'.ok
       /\ status' \in {"aborted", "exited"}
       /\ size' = size
       /\ capacity' = capacity
       /\ elems' = elems
       /\ heap' = heap
    ]_vars

\* map_remove of an absent key has ended the process on a table of two entries.
Wit_C12_RemoveAbsentKey ==
  /\ lastOp.op = "remove"
  /\ ~lastOp.found
  /\ ~lastOp.ok
  /\ status # "running"
  /\ size = 2

\* C14 (refinement): the table agrees with the partial function f from keys to
\* values that the same map_set and map_remove calls update: map_contains(k)
\* iff k is in the domain of f, map_get(k) = f(k), and map_size is the number
\* of keys in the domain of f, which is the number of cells linked in the
\* chains; and a call on key k leaves f unchanged at every other key.
Thm_C14_Refinement ==
  /\ [](/\ \A k \in Keys : map_contains(Cur, k) <=> k \in DOMAIN f
        /\ \A k \in DOMAIN f : map_get(Cur, k) = Got(f[k])
        /\ map_size(Cur) = Cardinality(DOMAIN f)
        /\ Len(LinkedCells) = Cardinality(DOMAIN f))
  /\ [][\A k \in Keys \ {lastOp'.key} :
          /\ k \in DOMAIN f' <=> k \in DOMAIN f
          /\ k \in DOMAIN f => f'[k] = f[k]
       ]_vars

\* An entry has been removed from a chain of three at capacity 4, its two
\* neighbours staying linked with different values.
Wit_C14_RemovedFromChainOfThree ==
  /\ lastOp.op = "remove"
  /\ lastOp.ok
  /\ lastOp.size0 = 3
  /\ capacity = 4
  /\ Len(BucketCells(0)) = 2
  /\ heap[BucketCells(0)[1]].value # heap[BucketCells(0)[2]].value

\* C13 (destruction): while the map is in use its header and exactly one
\* bucket array, the current one, are allocated (arrays replaced by growth have
\* been freed); map_destroy frees every remaining entry exactly once, then the
\* current bucket array, then the header, reads no freed cell, leaves nothing
\* allocated, and passes no value handle to free.
Thm_C13_Destruction ==
  /\ status # "ub"
  /\ status = "running" => (header /\ arrays = {elemsPtr} /\ frees = <<>>)
  /\ status = "destroyed" =>
       /\ DOMAIN heap = {}
       /\ arrays = {}
       /\ ~header
       /\ Len(frees) = lastOp.cells0 + 2
       /\ \A i, j \in DOMAIN frees : i # j => frees[i] # frees[j]
       /\ \A i \in 1 .. lastOp.cells0 : frees[i].kind = "cell" /\ frees[i].ptr \in Addrs
       /\ frees[lastOp.cells0 + 1] = Freed("array", elemsPtr)
       /\ frees[lastOp.cells0 + 2] = Freed("header", NULL)

\* A map of three entries, grown twice and holding a chain of two or more, has
\* been destroyed.
Wit_C13_DestroyedChainAfterGrowth ==
  /\ status = "destroyed"
  /\ lastOp.op = "destroy"
  /\ lastOp.size0 = 3
  /\ capacity = 4
  /\ \E i \in DOMAIN elems : elems[i] = NULL

\* The keys of the chain of bucket i of st, from the head on.
ChainKeys(st, i) ==
  LET cells == ChainCells(st.heap, st.elems[i])
  IN [j \in 1 .. Len(cells) |-> st.heap[cells[j]].key]

Range(q) == {q[j] : j \in DOMAIN q}
Only(q, S) == SelectSeq(q, LAMBDA x : x \in S)
Reverse(q) == [j \in 1 .. Len(q) |-> q[Len(q) + 1 - j]]

\* C15 as stated: in every reachable state, within each bucket chain an entry
\* inserted later is nearer the head than any entry inserted earlier.
Cex_C15_MostRecentFirst ==
  \A i \in 0 .. capacity - 1 :
    \A p, q \in 1 .. Len(BucketCells(i)) :
      p < q => insertedAt[heap[BucketCells(i)[p]].key]
                 > insertedAt[heap[BucketCells(i)[q]].key]

\* C15 (bucket order), amended: map_set links a new entry at the head of its
\* bucket; a call that changes the chains without growing the table keeps the
\* order of the other entries of every chain; growth reverses the order of the entries of one old
\* chain that land in the same new chain.
Thm_C15_HeadInsertionGrowthReverses ==
  [][/\ (lastOp'.op = "set" /\ ~lastOp'.found) =>
          Head(ChainKeys(Cur', umod(hash(lastOp'.key), capacity'))) = lastOp'.key
     /\ (capacity' = capacity /\ <<elems, heap>>' # <<elems, heap>>) =>
          \A i \in 0 .. capacity - 1 :
            Only(ChainKeys(Cur', i), Keys \ {lastOp'.key})
              = Only(ChainKeys(Cur, i), Keys \ {lastOp'.key})
     /\ capacity' # capacity =>
          \A i \in 0 .. capacity - 1, j \in 0 .. capacity' - 1 :
            Only(ChainKeys(Cur', j), Range(ChainKeys(Cur, i)))
              = Reverse(Only(ChainKeys(Cur, i), Range(ChainKeys(Cur', j))))
    ]_vars

\* Growth from capacity 2 to 4 has just left an entry inserted earlier nearer
\* the head of its chain than one inserted later.
Wit_C15_OlderNearerHeadAfterGrowth ==
  /\ lastOp.op = "set"
  /\ lastOp.cap0 = 2
  /\ capacity = 4
  /\ \E i \in 0 .. capacity - 1 :
       \E p, q \in 1 .. Len(BucketCells(i)) :
         /\ p < q
         /\ insertedAt[heap[BucketCells(i)[p]].key]
              < insertedAt[heap[BucketCells(i)[q]].key]

\* C16 as stated: when an allocation fails during map_set, for the new entry
\* or for the new bucket array, the process terminates, and the table is never
\* left partially resized or partially mutated: the capacity is the length of
\* an allocated bucket array and size is the number of linked cells.
Cex_C16_AllocFailureAtomic ==
  (lastOp.op = "set" /\ ~lastOp.ok) =>
    /\ status \in {"aborted", "exited", "segv"}
    /\ elemsPtr \in arrays
    /\ DOMAIN elems = 0 .. capacity - 1
    /\ size = Len(LinkedCells)

\* C17 (shell guards): for every sequence of commands, no map operation is
\* called while m is NULL (the command prints the init error instead), map_get
\* and map_remove are called only with a key that is present (get and remove
\* print key not found otherwise, ls passes the keys of the walk), and so no
\* command ends the process through the crash path of map_get or map_remove.
Thm_C17_ShellGuards ==
  /\ status \in {"running", "exit0"}
  /\ \A j \in DOMAIN shell.calls :
       /\ shell.calls[j].m # NULL
       /\ shell.calls[j].op \in {"get", "remove"} => shell.calls[j].present
  /\ (shell.m = NULL /\ shell.cmd \in {"size", "ls", "contains", "set", "get", "remove"}) =>
       (shell.out = UseInit /\ shell.calls = <<>>)
  /\ (shell.m # NULL /\ shell.cmd \in {"get", "remove"}
        /\ \A j \in DOMAIN shell.calls : shell.calls[j].op = "contains") =>
       shell.out.msg = "error; key not found"

\* remove of a key that is absent from a map of two entries has printed the
\* error and called map_contains only.
Wit_C17_RemoveAbsentKeyRefused ==
  /\ shell.cmd = "remove"
  /\ shell.m # NULL
  /\ shell.out.msg = "error; key not found"
  /\ Len(shell.calls) = 1
  /\ size = 2
  /\ status = "running"

\* C19 as stated: after an init command no value string stored by an earlier
\* set command remains allocated.
Cex_C19_ReinitFreesValues ==
  shell.cmd = "init" => \A a \in DOMAIN shell.strs : shell.strs[a] # "value"

\* C18 as stated: once stdin has reached end-of-file, read_cmd eventually
\* returns false, so the main loop ends.
Cex_C18_EofEndsShell ==
  (reader.pc # "idle" /\ reader.input = <<>>) ~> (reader.pc = "returned false")

\* C20 as stated: the block map_create allocates for the header is at least
\* as large as struct map, so every field an operation reads or writes lies
\* inside that block.
Cex_C20_HeaderHoldsStruct ==
  /\ HeaderBytes >= SizeofStructMap
  /\ \A fld \in Touched(lastOp.op) :
       MapFields[fld].off + MapFields[fld].len <= HeaderBytes

====
